---- MODULE Spec2Model ----
(***************************************************************************)
(* Model of entity.py: one run of main().  The run fetches a page, calls   *)
(* the language service twice, looks every entity up in the knowledge      *)
(* graph, and writes entities_analysis.txt.  External services answer      *)
(* nondeterministically (a response value, or an exception).               *)
(*                                                                         *)
(* Python values: a dict is a function from its keys (strings) to values,  *)
(* a list is a sequence, None is the value None below.  Salience is held   *)
(* in units of 1e-5 and sentiment in units of 1e-3, so that the report's   *)
(* :.4f and :.2f formatting is a real (lossy) rounding.                    *)
(***************************************************************************)
EXTENDS Integers, Sequences, FiniteSets, TLC

\* Bounds of the model: longest entity list and longest sentiment list a
\* language-service response carries.
MaxEntities == 2
MaxSent == 2

\* ------------------------------------------------------------------------
\* Python values
\* ------------------------------------------------------------------------
Empty == [k \in {} |-> 0]                 \* {} (the empty dict)
None == [none |-> TRUE]                   \* None
Truthy(d) == d # None /\ DOMAIN d # {}    \* bool(d) for d a dict or None

Reverse(s) == [k \in 1..Len(s) |-> s[Len(s) + 1 - k]]
IsPrefix(s, t) == Len(s) <= Len(t) /\ \A k \in 1..Len(s) : s[k] = t[k]
SeqsUpTo(S, n) == UNION {[1..m -> S] : m \in 0..n}

\* ------------------------------------------------------------------------
\* Inputs: what the user and the external services can supply
\* ------------------------------------------------------------------------
Urls == {"http://example.org/"}
Texts == {"Paris Eiffel Tower"}
Names == {"Paris", "Eiffel Tower"}
Saliences == {94996, 95004}               \* 0.94996, 0.95004 (both print 0.9500)
TypeOf == [n \in Names |-> IF n = "Paris" THEN 2 ELSE 0]
MetadataOf == [n \in Names |->
    IF n = "Paris" THEN [k \in {"wikipedia_url"} |-> "https://en.wikipedia.org/wiki/Paris"]
    ELSE Empty]
MentionsOf == [n \in Names |-> IF n = "Paris" THEN <<"Paris", "paris">> ELSE <<"tower">>]

\* language_v1.Entity as returned by analyze_entities
ApiEntity(n, s) ==
    [name |-> n, type_ |-> TypeOf[n], salience |-> s,
     metadata |-> MetadataOf[n], mentions |-> MentionsOf[n]]
ApiEntities == {ApiEntity(n, s) : n \in Names, s \in Saliences}
EntityResponses == SeqsUpTo(ApiEntities, MaxEntities)

\* entities of the analyze_entity_sentiment response (only .sentiment is read)
Sentiments == {[score |-> 0, magnitude |-> 0], [score |-> -254, magnitude |-> 906]}
SentimentEntities == {[sentiment |-> s] : s \in Sentiments}
SentimentResponses == SeqsUpTo(SentimentEntities, MaxSent)

\* JSON bodies of the knowledge-graph search
FullResult ==
    ("description" :> "Capital of France") @@ ("@type" :> "Place") @@
    ("detailedDescription" :> [articleBody |-> "Paris is the capital."])
NoBodyResult == [detailedDescription |-> [url |-> "https://en.wikipedia.org/"]]
KgResults == {FullResult, NoBodyResult}
KgBodies ==
    {Empty, [error |-> "denied"], [itemListElement |-> <<>>],
     [itemListElement |-> <<[resultScore |-> "1"]>>]}
    \cup {[itemListElement |-> <<[result |-> r]>>] : r \in KgResults}
\* what the log of lookups keeps when requests.get or response.json() raised
Raised == [exception |-> "raised"]

\* ------------------------------------------------------------------------
\* analyze_content: building one entity record
\* ------------------------------------------------------------------------
\* language_v1.Entity.Type(t).name
TypeName(t) ==
    CASE t = 0 -> "UNKNOWN" [] t = 1 -> "PERSON" [] t = 2 -> "LOCATION"
      [] t = 3 -> "ORGANIZATION" [] OTHER -> "OTHER"

\* a seeded fault: the sentiment of the entity at the record's own position
SentimentAtPosition(sentiment_entities, pos) ==
    IF sentiment_entities = <<>> THEN None
    ELSE LET k == IF pos <= Len(sentiment_entities) THEN pos ELSE 1
         IN [magnitude |-> sentiment_entities[k].sentiment.magnitude,
             score |-> sentiment_entities[k].sentiment.score]

\* the 'sentiment' value of the record built for the entity at position pos
SentimentOf(sentiment_entities, pos) ==
    IF sentiment_entities # <<>>
    THEN [magnitude |-> sentiment_entities[1].sentiment.magnitude,
          score |-> sentiment_entities[1].sentiment.score]
    ELSE None

EntityInfo(entity, sentiment_entities, pos) ==
    [name |-> entity.name,
     type |-> TypeName(entity.type_),
     salience |-> entity.salience,
     metadata |-> entity.metadata,
     mentions |-> Len(entity.mentions),
     sentiment |-> SentimentOf(sentiment_entities, pos)]

\* a seeded fault: the first list element is attached without looking for 'result'
EnrichAnyItem(entity_info, kg_result) ==
    IF "itemListElement" \in DOMAIN kg_result /\ kg_result.itemListElement # <<>>
    THEN LET item == kg_result.itemListElement[1]
         IN entity_info @@ [knowledge_graph |->
                IF "result" \in DOMAIN item THEN item.result ELSE item]
    ELSE entity_info

\* the record after the knowledge-graph response has been looked at
Enrich(entity_info, kg_result) ==
    IF "itemListElement" \in DOMAIN kg_result /\ kg_result.itemListElement # <<>>
    THEN LET item == kg_result.itemListElement[1]
         IN IF "result" \in DOMAIN item
            THEN entity_info @@ [knowledge_graph |-> item.result]
            ELSE entity_info
    ELSE entity_info

\* a seeded fault: the records are counted, not the names
EntityCountOfRecords(found, data) == Len(data)

\* 'entity_count' of the returned dict
EntityCount(found, data) == Cardinality(found)

\* ------------------------------------------------------------------------
\* main: sorting and rendering
\* ------------------------------------------------------------------------
\* list.sort on salience, ascending and stable (insertion after equal keys)
InsertAfterEqual(t, x) ==
    LET n == Cardinality({k \in 1..Len(t) : t[k].salience <= x.salience})
    IN SubSeq(t, 1, n) \o <<x>> \o SubSeq(t, n + 1, Len(t))

RECURSIVE SortAscending(_)
SortAscending(s) ==
    IF s = <<>> THEN <<>>
    ELSE InsertAfterEqual(SortAscending(SubSeq(s, 1, Len(s) - 1)), s[Len(s)])

\* a seeded fault: ascending sort, then reversed (ties come out reversed)
sortedThenReversed(s) == Reverse(SortAscending(s))

\* sorted(s, key=salience, reverse=True): CPython reverses, sorts stably and
\* reverses again, so equal keys keep their order
sorted(s) == Reverse(SortAscending(Reverse(s)))

\* f"{x:.4f}" for x in units of 1e-5, as units of 1e-4 (no input is a tie)
Fmt4(x) == (x + 5) \div 10
\* f"{x:.2f}" for x in units of 1e-3, as units of 1e-2 (no input is a tie)
Fmt2(x) == (x + 5) \div 10

\* one f.write: its label, its text value and its numeric value
Line(k, s, n) == [k |-> k, s |-> s, n |-> n]

HeaderLines(res) ==
    <<Line("Analysis Results for", res.url, 0),
      Line("==================================================", "", 0),
      Line("Total Entities Found", "", res.entity_count),
      Line("Detailed Entity Analysis:", "", 0),
      Line("==================================================", "", 0)>>

EntityLines(e) ==
    <<Line("Entity", e.name, 0),
      Line("Type", e.type, 0),
      Line("Salience Score", "", Fmt4(e.salience)),
      Line("Number of Mentions", "", e.mentions)>>

\* a seeded fault: the sentiment is tested by its score
ScoreIsTruthy(d) == d # None /\ d.score # 0

\* the test of line 164
SentimentIsTruthy(d) == Truthy(d)

SentimentLines(e) ==
    IF SentimentIsTruthy(e.sentiment)
    THEN <<Line("Sentiment Score", "", Fmt2(e.sentiment.score)),
           Line("Sentiment Magnitude", "", Fmt2(e.sentiment.magnitude))>>
    ELSE <<>>

RECURSIVE ItemLines(_, _)
ItemLines(d, keys) ==
    IF keys = {} THEN <<>>
    ELSE LET key == CHOOSE x \in keys : TRUE
         IN <<Line("  " \o key, d[key], 0)>> \o ItemLines(d, keys \ {key})

MetadataLines(e) ==
    IF e.metadata # Empty
    THEN <<Line("Metadata:", "", 0)>> \o ItemLines(e.metadata, DOMAIN e.metadata)
    ELSE <<>>

\* line 181 raises KeyError: 'detailedDescription' without 'articleBody'
KnowledgeGraphRaises(e) ==
    /\ "knowledge_graph" \in DOMAIN e
    /\ "detailedDescription" \in DOMAIN e.knowledge_graph
    /\ "articleBody" \notin DOMAIN e.knowledge_graph.detailedDescription

\* the writes of lines 173-181, up to the one that raises
KnowledgeGraphLines(e) ==
    IF "knowledge_graph" \in DOMAIN e
    THEN LET kg_info == e.knowledge_graph
         IN <<Line("Knowledge Graph Information:", "", 0)>>
            \o (IF "description" \in DOMAIN kg_info
                THEN <<Line("  Description", kg_info.description, 0)>> ELSE <<>>)
            \o (IF "@type" \in DOMAIN kg_info
                THEN <<Line("  Type", kg_info["@type"], 0)>> ELSE <<>>)
            \o (IF "detailedDescription" \in DOMAIN kg_info /\ ~KnowledgeGraphRaises(e)
                THEN <<Line("  Detailed Description",
                            kg_info.detailedDescription.articleBody, 0)>>
                ELSE <<>>)
    ELSE <<>>

SeparatorLine == Line("----------------------------------------", "", 0)

\* everything one pass of the loop of line 158 writes
BlockLines(e) ==
    EntityLines(e) \o SentimentLines(e) \o MetadataLines(e) \o KnowledgeGraphLines(e)
    \o (IF KnowledgeGraphRaises(e) THEN <<>> ELSE <<SeparatorLine>>)

\* ------------------------------------------------------------------------
\* State of one run
\* ------------------------------------------------------------------------
VARIABLES
    pc,               \* where main() is
    url,              \* the URL typed by the user
    content,          \* text returned by extract_content
    entResp,          \* vertex_analysis['entities'].entities
    sentResp,         \* vertex_analysis['entity_sentiment'].entities
    entities_data,    \* the list built by analyze_content
    found_entities,   \* the set built by analyze_content
    kgResps,          \* outcome of the lookup of every pass of the loop so far
    calls,            \* every external call issued, in order
    results,          \* what analyze_content returned (None before)
    sorted_entities,  \* the list made by sorted() in main
    file_exists,      \* entities_analysis.txt has been opened for writing
    file,             \* the writes made to entities_analysis.txt, in order
    failed            \* the stage whose exception ended the run ("" if none)

vars == <<pc, url, content, entResp, sentResp, entities_data, found_entities,
          kgResps, calls, results, sorted_entities, file_exists, file, failed>>

Call(fn, arg) == [fn |-> fn, arg |-> arg]

Init ==
    /\ pc = "extract_content"
    /\ url \in Urls
    /\ content = ""
    /\ entResp = <<>>
    /\ sentResp = <<>>
    /\ entities_data = <<>>
    /\ found_entities = {}
    /\ kgResps = <<>>
    /\ calls = <<>>
    /\ results = None
    /\ sorted_entities = <<>>
    /\ file_exists = FALSE
    /\ file = <<>>
    /\ failed = ""

\* an exception that nothing catches: main() ends there
Abort(stage) == pc' = "aborted" /\ failed' = stage

\* extract_content returns the page text
ExtractContent ==
    /\ pc = "extract_content"
    /\ calls' = Append(calls, Call("requests.get", url))
    /\ \E text \in Texts : content' = text
    /\ pc' = "analyze_entities"
    /\ UNCHANGED <<url, entResp, sentResp, entities_data, found_entities, kgResps,
                   results, sorted_entities, file_exists, file, failed>>

\* the request or the parse raises; extract_content re-raises
ExtractContentRaises ==
    /\ pc = "extract_content"
    /\ calls' = Append(calls, Call("requests.get", url))
    /\ Abort("extract_content")
    /\ UNCHANGED <<url, content, entResp, sentResp, entities_data, found_entities,
                   kgResps, results, sorted_entities, file_exists, file>>

AnalyzeEntities ==
    /\ pc = "analyze_entities"
    /\ calls' = Append(calls, Call("analyze_entities", content))
    /\ \E resp \in EntityResponses : entResp' = resp
    /\ pc' = "analyze_entity_sentiment"
    /\ UNCHANGED <<url, content, sentResp, entities_data, found_entities, kgResps,
                   results, sorted_entities, file_exists, file, failed>>

AnalyzeEntitiesRaises ==
    /\ pc = "analyze_entities"
    /\ calls' = Append(calls, Call("analyze_entities", content))
    /\ Abort("analyze_with_vertex")
    /\ UNCHANGED <<url, content, entResp, sentResp, entities_data, found_entities,
                   kgResps, results, sorted_entities, file_exists, file>>

AnalyzeEntitySentiment ==
    /\ pc = "analyze_entity_sentiment"
    /\ calls' = Append(calls, Call("analyze_entity_sentiment", content))
    /\ \E resp \in SentimentResponses : sentResp' = resp
    /\ pc' = "for_entity"
    /\ UNCHANGED <<url, content, entResp, entities_data, found_entities, kgResps,
                   results, sorted_entities, file_exists, file, failed>>

AnalyzeEntitySentimentRaises ==
    /\ pc = "analyze_entity_sentiment"
    /\ calls' = Append(calls, Call("analyze_entity_sentiment", content))
    /\ Abort("analyze_with_vertex")
    /\ UNCHANGED <<url, content, entResp, sentResp, entities_data, found_entities,
                   kgResps, results, sorted_entities, file_exists, file>>

\* a seeded fault: an entity whose name was already seen is passed over
ForEntitySkippingSeen ==
    /\ pc = "for_entity"
    /\ Len(kgResps) < Len(entResp)
    /\ LET pos == Len(kgResps) + 1
           entity == entResp[pos]
       IN IF entity.name \in found_entities
          THEN /\ kgResps' = Append(kgResps, Empty)
               /\ UNCHANGED <<calls, entities_data, found_entities>>
          ELSE \E kg_result \in KgBodies :
               /\ calls' = Append(calls, Call("query_knowledge_graph", entity.name))
               /\ kgResps' = Append(kgResps, kg_result)
               /\ entities_data' =
                      Append(entities_data,
                             Enrich(EntityInfo(entity, sentResp, pos), kg_result))
               /\ found_entities' = found_entities \cup {entity.name}
    /\ UNCHANGED <<pc, url, content, entResp, sentResp, results, sorted_entities,
                   file_exists, file, failed>>

\* one pass of the loop of line 102 whose lookup returns a JSON body
ForEntity ==
    /\ pc = "for_entity"
    /\ Len(kgResps) < Len(entResp)
    /\ LET pos == Len(kgResps) + 1
           entity == entResp[pos]
       IN \E kg_result \in KgBodies :
            /\ calls' = Append(calls, Call("query_knowledge_graph", entity.name))
            /\ kgResps' = Append(kgResps, kg_result)
            /\ entities_data' =
                   Append(entities_data,
                          Enrich(EntityInfo(entity, sentResp, pos), kg_result))
            /\ found_entities' = found_entities \cup {entity.name}
    /\ UNCHANGED <<pc, url, content, entResp, sentResp, results, sorted_entities,
                   file_exists, file, failed>>

\* a seeded fault: a lookup that raised is issued once more before giving up
ForEntityRaisesRetried ==
    /\ pc = "for_entity"
    /\ Len(kgResps) < Len(entResp)
    /\ LET entity == entResp[Len(kgResps) + 1]
       IN calls' = calls \o <<Call("query_knowledge_graph", entity.name),
                               Call("query_knowledge_graph", entity.name)>>
    /\ kgResps' = Append(kgResps, Raised)
    /\ Abort("query_knowledge_graph")
    /\ UNCHANGED <<url, content, entResp, sentResp, entities_data, found_entities,
                   results, sorted_entities, file_exists, file>>

\* one pass of the loop whose lookup raises (requests.get, or response.json()
\* on an undecodable body): nothing catches it
ForEntityRaises ==
    /\ pc = "for_entity"
    /\ Len(kgResps) < Len(entResp)
    /\ LET entity == entResp[Len(kgResps) + 1]
       IN calls' = Append(calls, Call("query_knowledge_graph", entity.name))
    /\ kgResps' = Append(kgResps, Raised)
    /\ Abort("query_knowledge_graph")
    /\ UNCHANGED <<url, content, entResp, sentResp, entities_data, found_entities,
                   results, sorted_entities, file_exists, file>>

\* the loop is exhausted: analyze_content returns
ReturnResults ==
    /\ pc = "for_entity"
    /\ Len(kgResps) = Len(entResp)
    /\ results' = [url |-> url,
                   entities_data |-> entities_data,
                   entity_count |-> EntityCount(found_entities, entities_data)]
    /\ pc' = "open"
    /\ UNCHANGED <<url, content, entResp, sentResp, entities_data, found_entities,
                   kgResps, calls, sorted_entities, file_exists, file, failed>>

\* a seeded fault: the result's own list is sorted in place
OpenReportSortingInPlace ==
    /\ pc = "open"
    /\ file_exists' = TRUE
    /\ file' = HeaderLines(results)
    /\ sorted_entities' = sorted(results.entities_data)
    /\ results' = [results EXCEPT !.entities_data = sorted(results.entities_data)]
    /\ pc' = "write"
    /\ UNCHANGED <<url, content, entResp, sentResp, entities_data, found_entities,
                   kgResps, calls, failed>>

\* the file is opened, the header written and the entities sorted
OpenReport ==
    /\ pc = "open"
    /\ file_exists' = TRUE
    /\ file' = HeaderLines(results)
    /\ sorted_entities' = sorted(results.entities_data)
    /\ pc' = "write"
    /\ UNCHANGED <<url, content, entResp, sentResp, entities_data, found_entities,
                   kgResps, calls, results, failed>>

\* number of passes of the loop of line 158 that ran to their end
Written == Cardinality({k \in 1..Len(file) : file[k] = SeparatorLine})

\* one pass of the loop of line 158
WriteEntity ==
    /\ pc = "write"
    /\ Written < Len(sorted_entities)
    /\ LET entity == sorted_entities[Written + 1]
       IN /\ ~KnowledgeGraphRaises(entity)
          /\ file' = file \o BlockLines(entity)
    /\ UNCHANGED <<pc, url, content, entResp, sentResp, entities_data, found_entities,
                   kgResps, calls, results, sorted_entities, file_exists, failed>>

\* one pass of the loop of line 158 that ends in the KeyError of line 181
WriteEntityRaises ==
    /\ pc = "write"
    /\ Written < Len(sorted_entities)
    /\ LET entity == sorted_entities[Written + 1]
       IN /\ KnowledgeGraphRaises(entity)
          /\ file' = file \o BlockLines(entity)
    /\ Abort("write")
    /\ UNCHANGED <<url, content, entResp, sentResp, entities_data, found_entities,
                   kgResps, calls, results, sorted_entities, file_exists>>

\* the with-block ends, the two closing messages are printed
Complete ==
    /\ pc = "write"
    /\ Written = Len(sorted_entities)
    /\ pc' = "done"
    /\ UNCHANGED <<url, content, entResp, sentResp, entities_data, found_entities,
                   kgResps, calls, results, sorted_entities, file_exists, file, failed>>

Next ==
    \/ ExtractContent
    \/ ExtractContentRaises
    \/ AnalyzeEntities
    \/ AnalyzeEntitiesRaises
    \/ AnalyzeEntitySentiment
    \/ AnalyzeEntitySentimentRaises
    \/ ForEntity
    \/ ForEntityRaises
    \/ ReturnResults
    \/ OpenReport
    \/ WriteEntity
    \/ WriteEntityRaises
    \/ Complete

Spec == Init /\ [][Next]_vars

\* ------------------------------------------------------------------------
\* Reading the report and the responses back
\* ------------------------------------------------------------------------
IsEntityLine(k) == file[k].k = "Entity"
\* the positions of the 'Entity' lines, in file order
Starts == SelectSeq([k \in 1..Len(file) |-> k], IsEntityLine)
NumBlocks == Len(Starts)
\* the entity blocks of the file: each from its 'Entity' line to the next one
Blocks ==
    LET st == Starts
    IN [b \in 1..Len(st) |->
           SubSeq(file, st[b], IF b < Len(st) THEN st[b + 1] - 1 ELSE Len(file))]
Block(b) == Blocks[b]
HasLine(block, kind) == \E k \in 1..Len(block) : block[k].k = kind
TotalLines == {k \in 1..Len(file) : file[k].k = "Total Entities Found"}

ResponseNames == {entResp[k].name : k \in 1..Len(entResp)}
NamesDistinct ==
    \A a, b \in 1..Len(entResp) : a # b => entResp[a].name # entResp[b].name
Orders(n) == {p \in [1..n -> 1..n] : \A a, b \in 1..n : a # b => p[a] # p[b]}
\* number of records that come before record k when the order is
\* non-increasing in salience and ties keep response order
Before(s, k) ==
    Cardinality({j \in 1..Len(s) :
        \/ s[j].salience > s[k].salience
        \/ s[j].salience = s[k].salience /\ j < k})
\* that order: its position b holds response position StableOrder(s)[b]
StableOrder(s) == [b \in 1..Len(s) |-> CHOOSE k \in 1..Len(s) : Before(s, k) = b - 1]
\* the response has a non-empty itemListElement whose first element has 'result'
HasResult(r) ==
    /\ "itemListElement" \in DOMAIN r
    /\ r.itemListElement # <<>>
    /\ "result" \in DOMAIN r.itemListElement[1]
LookupCalls == SelectSeq(calls, LAMBDA c : c.fn = "query_knowledge_graph")
ExpectedCalls ==
    <<Call("requests.get", url), Call("analyze_entities", content),
      Call("analyze_entity_sentiment", content)>>
    \o [k \in 1..Len(entResp) |-> Call("query_knowledge_graph", entResp[k].name)]

\* ------------------------------------------------------------------------
\* Claims
\* ------------------------------------------------------------------------

\* C1: the entity_count returned by analyze_content, and the number on the
\* report's one 'Total Entities Found' line, is the number of distinct names
\* in the analyzer's response (duplicates and the empty response included).
C1_CountIsDistinctNames ==
    /\ results # None => results.entity_count = Cardinality(ResponseNames)
    /\ file_exists =>
          /\ Cardinality(TotalLines) = 1
          /\ \A k \in TotalLines : file[k].n = Cardinality(ResponseNames)

C1_Witness ==
    /\ pc = "done"
    /\ Len(entResp) = 2
    /\ Cardinality(ResponseNames) = 1
    /\ \E k \in TotalLines : file[k].n = 1

\* C2: the blocks of the report are in non-increasing order of salience, and
\* blocks of equal salience are in the order of the analyzer's response: block
\* b shows the record at position b of the stable descending order.
C2_StableDescendingOrder ==
    file_exists =>
        /\ NumBlocks <= Len(entResp)
        /\ LET p == StableOrder(entResp)
               blocks == Blocks
           IN \A b \in 1..Len(blocks) :
                 LET e == entResp[p[b]]
                 IN /\ blocks[b][1] = Line("Entity", e.name, 0)
                    /\ blocks[b][3] = Line("Salience Score", "", Fmt4(e.salience))

C2_Witness ==
    /\ pc = "done"
    /\ NumBlocks = 2
    /\ entResp[1].salience = entResp[2].salience
    /\ entResp[1].name # entResp[2].name
    /\ Block(1)[1].s = entResp[1].name

\* C3 (as claimed): a lookup that raises or brings no result never ends the
\* run; its record is kept, without a knowledge_graph field.
C3_LookupFailureNotFatal ==
    \A k \in 1..Len(kgResps) :
        ~HasResult(kgResps[k]) =>
            /\ failed # "query_knowledge_graph"
            /\ k <= Len(entities_data)
            /\ "knowledge_graph" \notin DOMAIN entities_data[k]

\* C4 (as claimed): a run that ended in an exception left either no output
\* file or the complete report (one finished block per record).
C4_NoPartialReport ==
    pc = "aborted" => (~file_exists \/ Written = Len(entResp))

\* C5: every block has both sentiment lines when its record's sentiment is
\* present (a sentiment of score 0 and magnitude 0 included) and neither
\* when it is None.
C5_SentimentLinesTogether ==
    /\ NumBlocks <= Len(sorted_entities)
    /\ LET blocks == Blocks
       IN \A b \in 1..Len(blocks) :
             LET present == sorted_entities[b].sentiment # None
             IN /\ HasLine(blocks[b], "Sentiment Score") = present
                /\ HasLine(blocks[b], "Sentiment Magnitude") = present

C5_Witness ==
    /\ pc = "done"
    /\ NumBlocks >= 1
    /\ sorted_entities[1].sentiment = [magnitude |-> 0, score |-> 0]
    /\ HasLine(Block(1), "Sentiment Score")

\* C6: a block has the 'Knowledge Graph Information' section exactly when the
\* lookup made for its record answered with a non-empty itemListElement whose
\* first element has a 'result'.
C6_KnowledgeGraphSectionIffResult ==
    file_exists =>
        LET p == StableOrder(entResp)
            blocks == Blocks
        IN \A b \in 1..Len(blocks) :
              HasLine(blocks[b], "Knowledge Graph Information:") = HasResult(kgResps[p[b]])

C6_Witness ==
    /\ pc = "done"
    /\ NumBlocks = 2
    /\ HasLine(Block(1), "Knowledge Graph Information:")
    /\ ~HasLine(Block(2), "Knowledge Graph Information:")
    /\ \E k \in 1..2 : kgResps[k] = [itemListElement |-> <<[resultScore |-> "1"]>>]

\* C7: the calls issued so far are an initial part of: one fetch, entity
\* extraction, entity sentiment, then one lookup per record in response order;
\* every pass of the loop has issued exactly one lookup, also the pass that
\* raised; and the file is opened only when all of them have been issued.
C7_CallsInOrderOnce ==
    /\ IsPrefix(calls, ExpectedCalls)
    /\ Len(LookupCalls) = Len(kgResps)
    /\ failed = "extract_content" => Len(calls) = 1
    /\ file_exists => calls = ExpectedCalls

C7_Witness ==
    /\ failed = "query_knowledge_graph"
    /\ Len(kgResps) = 2
    /\ entResp[1].name = entResp[2].name

\* C8: with an empty sentiment list every record's sentiment is None;
\* otherwise every record carries the score and magnitude of the list's first
\* entity.
C8_SentimentOfFirstEntity ==
    \A k \in 1..Len(entities_data) :
        entities_data[k].sentiment =
            IF sentResp = <<>> THEN None
            ELSE [magnitude |-> sentResp[1].sentiment.magnitude,
                  score |-> sentResp[1].sentiment.score]

C8_Witness ==
    /\ Len(entities_data) = 2
    /\ entities_data[1].name # entities_data[2].name
    /\ Len(sentResp) = 2
    /\ sentResp[1] # sentResp[2]
    /\ entities_data[2].sentiment.score = sentResp[1].sentiment.score

\* C9: no step changes the salience of a record already in the list, every
\* record's salience is the one the analyzer returned at its position, the
\* sorted list holds the result's records, and once analyze_content has
\* returned no step changes the result's own list.
C9_SalienceNeverChanges ==
    [][/\ \A k \in 1..Len(entities_data) :
             /\ k <= Len(entities_data')
             /\ entities_data'[k].salience = entities_data[k].salience
       /\ \A k \in 1..Len(entities_data') :
             entities_data'[k].salience = entResp'[k].salience
       /\ results # None => results'.entities_data = results.entities_data
       /\ sorted_entities' # <<>> =>
             \E p \in Orders(Len(sorted_entities')) :
                 \A k \in 1..Len(sorted_entities') :
                     sorted_entities'[k] = results'.entities_data[p[k]]
      ]_vars

C9_Witness ==
    /\ pc = "done"
    /\ sorted_entities # results.entities_data
    /\ results.entities_data = entities_data

\* C10: a completed report has one block per record of the response,
\* duplicates of a name included: the number of blocks is at least the count
\* of the header, equal to it exactly when the names are distinct; and one
\* lookup was issued per record.
C10_BlockPerRecord ==
    pc = "done" =>
        /\ NumBlocks = Len(entResp)
        /\ \A k \in TotalLines :
              /\ NumBlocks >= file[k].n
              /\ (NumBlocks = file[k].n) = NamesDistinct
        /\ Len(LookupCalls) = Len(entResp)

C10_Witness ==
    /\ pc = "done"
    /\ ~NamesDistinct
    /\ NumBlocks = 2
    /\ Len(LookupCalls) = 2

====
